---- MODULE Spec2Model ----
(***************************************************************************)
(* openst.js: the User wallet facade (lib/helper/User.js), the wallet      *)
(* operations of test/integration/WalletOperations.js, and the deployed    *)
(* multisig safe / token holder pair they act on.                          *)
(*                                                                         *)
(* Two callers use the User facade: an API caller, whose arguments are     *)
(* drawn from bounded sets, and the integration test, whose arguments are  *)
(* the test's.  The wallet the test creates is the one the safe clients    *)
(* (two concurrent callers following the test's fetch nonce -> build ->    *)
(* sign -> execTransaction protocol) operate on.                           *)
(***************************************************************************)
EXTENDS Integers, Sequences, FiniteSets, TLC

\* ------------------------------------------------------------- bounds
MaxCalls == 2
MaxNonce == 3
MaxThreshold == 2
MaxSessionKeys == 2

\* ---------------------------------------------------------- addresses
NULL_ADDRESS == "0x0"
ZERO_BYTES == "0x"
SENTINEL_OWNERS == "0x1"
NoAddress == "none"

Wallets == {"w3", "w7", "w8", "w9"}
SessionKeyWallets == {"w5", "w7"}
Addr == Wallets \cup {SENTINEL_OWNERS}

\* The five addresses a User instance is constructed with.
gnosisSafeMasterCopy == "gnosisSafeMasterCopyAddress"
tokenHolderMasterCopy == "thMasterCopyAddress"
eip20Token == "mockToken"
tokenRules == "tokenRulesAddress"
userWalletFactoryAddress == "userWalletFactoryAddress"
ProxyFactoryAddress == "proxyFactoryAddress"

UserWalletFactoryContractName == "UserWalletFactory"
ProxyFactoryContractName == "ProxyFactory"
THMasterCopyContractName == "TokenHolder"
ContractNames ==
  {UserWalletFactoryContractName, ProxyFactoryContractName, THMasterCopyContractName,
   "GnosisSafe"}

sessionKeySpendingLimit == "sessionKeySpendingLimit"
sessionKeyExpirationHeight == "sessionKeyExpirationHeight"

\* ------------------------------------------------------------ helpers
SeqsUpTo(S, n) == UNION {[1..k -> S] : k \in 0..n}

Range(s) == {s[i] : i \in 1..Len(s)}

Distinct(s) == \A i, j \in 1..Len(s) : i # j => s[i] # s[j]

Prefixes(s, n) == {SubSeq(s, 1, k) : k \in 0..(IF Len(s) < n THEN Len(s) ELSE n)}

NamesOf(events, name) == SelectSeq(events, LAMBDA e : e.name = name)

ArgsOf(events, name) ==
  [i \in 1..Len(NamesOf(events, name)) |-> NamesOf(events, name)[i].arg]

Ev(name, arg) == [name |-> name, arg |-> arg]

\* ------------------------------------------------ ABI/bytecode registry
\* getABI(name): the descriptor of a registered contract, NotFoundError otherwise.
getABI(registry, name) ==
  IF name \in registry THEN [ok |-> TRUE, abi |-> name]
  ELSE [ok |-> FALSE, abi |-> "NotFoundError"]

\* -------------------------------------------------- on-chain owner list
\* The owners of a safe are a singly linked list SENTINEL -> o1 -> ... -> SENTINEL,
\* kept as the successor of each address (NULL_ADDRESS: not an owner).
EmptyOwners == [a \in Addr |-> NULL_ADDRESS]

RECURSIVE LinkOwners(_, _, _)
LinkOwners(next, prev, owners) ==
  IF owners = <<>> THEN [next EXCEPT ![prev] = SENTINEL_OWNERS]
  ELSE LinkOwners([next EXCEPT ![prev] = Head(owners)], Head(owners), Tail(owners))

RECURSIVE WalkOwners(_, _)
WalkOwners(next, a) ==
  IF next[a] \notin Wallets THEN <<>>
  ELSE <<next[a]>> \o WalkOwners(next, next[a])

\* getOwners(): the owner array, read by walking the list from the sentinel.
getOwners(next) == WalkOwners(next, SENTINEL_OWNERS)

OwnerSet(next) == {a \in Wallets : next[a] # NULL_ADDRESS}

isOwner(next, a) == a \in Wallets /\ next[a] # NULL_ADDRESS

IndexOf(s, x) ==
  IF \E i \in 1..Len(s) : s[i] = x
  THEN CHOOSE i \in 1..Len(s) : s[i] = x /\ \A j \in 1..(i - 1) : s[j] # x
  ELSE 0

\* findPreviousOwner(owners, owner): the array element before owner, the sentinel
\* for the first element; NULL_ADDRESS stands for the undefined result of an
\* address that is not in the array.
findPreviousOwner(owners, owner) ==
  LET i == IndexOf(owners, owner)
  IN  IF i = 0 THEN NULL_ADDRESS
      ELSE IF i = 1 THEN SENTINEL_OWNERS
      ELSE owners[i - 1]

\* ------------------------------------------------------ contract calls
\* The state of the wallet: the safe's owner list and threshold, and the token
\* holder's session key grants.
WalletState(next, thr, sess) == [next |-> next, threshold |-> thr, sessions |-> sess]

Reverted(st) == [ok |-> FALSE, st |-> st, events |-> <<>>]

ThresholdEvents(st, thr) ==
  IF thr # st.threshold THEN <<Ev("ChangedThreshold", thr)>> ELSE <<>>

setupOwners(st, owners, thr) ==
  IF /\ Distinct(owners)
     /\ Range(owners) \subseteq Wallets
     /\ thr >= 1
     /\ thr <= Len(owners)
  THEN [ok |-> TRUE,
        st |-> [st EXCEPT !.next = LinkOwners(EmptyOwners, SENTINEL_OWNERS, owners),
                          !.threshold = thr],
        events |-> <<>>]
  ELSE Reverted(st)

\* TokenHolder.setup: one grant per (key, limit, height) triple.
setupSessions(st, keys, limits, heights) ==
  IF /\ Len(keys) = Len(limits)
     /\ Len(keys) = Len(heights)
     /\ Distinct(keys)
     /\ NULL_ADDRESS \notin Range(keys)
  THEN [ok |-> TRUE, st |-> [st EXCEPT !.sessions = Range(keys)], events |-> <<>>]
  ELSE Reverted(st)

addOwnerWithThreshold(st, owner, thr) ==
  IF /\ owner \in Wallets
     /\ st.next[owner] = NULL_ADDRESS
     /\ thr >= 1
     /\ thr <= Cardinality(OwnerSet(st.next)) + 1
  THEN [ok |-> TRUE,
        st |-> [st EXCEPT !.next = [st.next EXCEPT ![owner] = st.next[SENTINEL_OWNERS],
                                                   ![SENTINEL_OWNERS] = owner],
                          !.threshold = thr],
        events |-> <<Ev("AddedOwner", owner)>> \o ThresholdEvents(st, thr)]
  ELSE Reverted(st)

swapOwner(st, prevOwner, oldOwner, newOwner) ==
  IF /\ newOwner \in Wallets
     /\ st.next[newOwner] = NULL_ADDRESS
     /\ oldOwner \in Wallets
     /\ prevOwner \in Addr
     /\ st.next[prevOwner] = oldOwner
  THEN [ok |-> TRUE,
        st |-> [st EXCEPT !.next = [st.next EXCEPT ![newOwner] = st.next[oldOwner],
                                                   ![prevOwner] = newOwner,
                                                   ![oldOwner] = NULL_ADDRESS]],
        events |-> <<Ev("RemovedOwner", oldOwner), Ev("AddedOwner", newOwner)>>]
  ELSE Reverted(st)

removeOwner(st, prevOwner, owner, thr) ==
  IF /\ thr >= 1
     /\ Cardinality(OwnerSet(st.next)) - 1 >= thr
     /\ owner \in Wallets
     /\ prevOwner \in Addr
     /\ st.next[prevOwner] = owner
  THEN [ok |-> TRUE,
        st |-> [st EXCEPT !.next = [st.next EXCEPT ![prevOwner] = st.next[owner],
                                                   ![owner] = NULL_ADDRESS],
                          !.threshold = thr],
        events |-> <<Ev("RemovedOwner", owner)>> \o ThresholdEvents(st, thr)]
  ELSE Reverted(st)

changeThreshold(st, thr) ==
  IF thr >= 1 /\ thr <= Cardinality(OwnerSet(st.next))
  THEN [ok |-> TRUE, st |-> [st EXCEPT !.threshold = thr],
        events |-> <<Ev("ChangedThreshold", thr)>>]
  ELSE Reverted(st)

authorizeSession(st, key) ==
  IF key # NULL_ADDRESS /\ key \notin st.sessions
  THEN [ok |-> TRUE, st |-> [st EXCEPT !.sessions = st.sessions \cup {key}],
        events |-> <<Ev("SessionAuthorized", key)>>]
  ELSE Reverted(st)

revokeSession(st, key) ==
  IF key \in st.sessions
  THEN [ok |-> TRUE, st |-> [st EXCEPT !.sessions = st.sessions \ {key}],
        events |-> <<Ev("SessionRevoked", key)>>]
  ELSE Reverted(st)

\* The call a Safe Transaction wraps, dispatched on its function name.
ApplyCall(st, call) ==
  CASE call.fn = "addOwnerWithThreshold" -> addOwnerWithThreshold(st, call.owner, call.threshold)
    [] call.fn = "swapOwner" -> swapOwner(st, call.prevOwner, call.owner, call.newOwner)
    [] call.fn = "removeOwner" -> removeOwner(st, call.prevOwner, call.owner, call.threshold)
    [] call.fn = "changeThreshold" -> changeThreshold(st, call.threshold)
    [] call.fn = "authorizeSession" -> authorizeSession(st, call.key)
    [] call.fn = "revokeSession" -> revokeSession(st, call.key)
    [] OTHER -> Reverted(st)

\* ------------------------------------------------------- User facade
\* encodeFunctionCall / encodeABI: the selector followed by the encoded arguments,
\* kept as a record of the selector and each argument in its position.
\* Mutant: the last owner is left out of the encoded owners.
getGnosisSafeData_DropsOwner(owners, threshold, to, data) ==
  [selector |-> "setup(address[],uint256,address,bytes)",
   a1 |-> IF owners = <<>> THEN owners ELSE SubSeq(owners, 1, Len(owners) - 1),
   a2 |-> threshold, a3 |-> to, a4 |-> data]

getGnosisSafeData(owners, threshold, to, data) ==
  [selector |-> "setup(address[],uint256,address,bytes)",
   a1 |-> owners, a2 |-> threshold, a3 |-> to, a4 |-> data]

getTokenHolderSetupExecutableData(registry, owner, sessionKeys, sessionKeysSpendingLimits, sessionKeysExpirationHeights) ==
  LET thMasterCopyAbi == getABI(registry, THMasterCopyContractName)
  IN  IF ~thMasterCopyAbi.ok THEN [ok |-> FALSE, error |-> thMasterCopyAbi.abi]
      ELSE [ok |-> TRUE,
            data |-> [selector |-> "setup(address,address,address,address[],uint256[],uint256[])",
                      a1 |-> eip20Token, a2 |-> tokenRules, a3 |-> owner,
                      a4 |-> sessionKeys, a5 |-> sessionKeysSpendingLimits,
                      a6 |-> sessionKeysExpirationHeights]]

NoTx == [to |-> NoAddress, method |-> "none"]

\* Mutant: the spending limits and the expiration heights change places.
createUserWalletRawTx_SwapsLimitsAndHeights(registry, owners, threshold, to, data, sessionKeys, sessionKeysSpendingLimits, sessionKeysExpirationHeights) ==
  LET gnosisSafeData == getGnosisSafeData(owners, threshold, to, data)
      jsonInterface == getABI(registry, UserWalletFactoryContractName)
  IN  IF ~jsonInterface.ok THEN [ok |-> FALSE, error |-> jsonInterface.abi, tx |-> NoTx]
      ELSE [ok |-> TRUE, error |-> "none",
            tx |-> [to |-> userWalletFactoryAddress, method |-> "createUserWallet",
                    a1 |-> gnosisSafeMasterCopy, a2 |-> gnosisSafeData,
                    a3 |-> tokenHolderMasterCopy, a4 |-> eip20Token, a5 |-> tokenRules,
                    a6 |-> sessionKeys, a7 |-> sessionKeysExpirationHeights,
                    a8 |-> sessionKeysSpendingLimits]]

createUserWalletRawTx(registry, owners, threshold, to, data, sessionKeys, sessionKeysSpendingLimits, sessionKeysExpirationHeights) ==
  LET gnosisSafeData == getGnosisSafeData(owners, threshold, to, data)
      jsonInterface == getABI(registry, UserWalletFactoryContractName)
  IN  IF ~jsonInterface.ok THEN [ok |-> FALSE, error |-> jsonInterface.abi, tx |-> NoTx]
      ELSE [ok |-> TRUE, error |-> "none",
            tx |-> [to |-> userWalletFactoryAddress, method |-> "createUserWallet",
                    a1 |-> gnosisSafeMasterCopy, a2 |-> gnosisSafeData,
                    a3 |-> tokenHolderMasterCopy, a4 |-> eip20Token, a5 |-> tokenRules,
                    a6 |-> sessionKeys, a7 |-> sessionKeysSpendingLimits,
                    a8 |-> sessionKeysExpirationHeights]]

\* Mutant: the contract called is the one at the instance's userWalletFactoryAddress.
createCompanyWalletRawTx_UsesUserWalletFactory(registry, proxyFactory, owner, sessionKeys, sessionKeysSpendingLimits, sessionKeysExpirationHeights) ==
  LET thSetupExecutableData ==
        getTokenHolderSetupExecutableData(registry, owner, sessionKeys,
                                          sessionKeysSpendingLimits,
                                          sessionKeysExpirationHeights)
      jsonInterface == getABI(registry, ProxyFactoryContractName)
  IN  IF ~thSetupExecutableData.ok
      THEN [ok |-> FALSE, error |-> thSetupExecutableData.error, tx |-> NoTx]
      ELSE IF ~jsonInterface.ok
      THEN [ok |-> FALSE, error |-> jsonInterface.abi, tx |-> NoTx]
      ELSE [ok |-> TRUE, error |-> "none",
            tx |-> [to |-> userWalletFactoryAddress, method |-> "createProxy",
                    a1 |-> tokenHolderMasterCopy, a2 |-> thSetupExecutableData.data]]

createCompanyWalletRawTx(registry, proxyFactory, owner, sessionKeys, sessionKeysSpendingLimits, sessionKeysExpirationHeights) ==
  LET thSetupExecutableData ==
        getTokenHolderSetupExecutableData(registry, owner, sessionKeys,
                                          sessionKeysSpendingLimits,
                                          sessionKeysExpirationHeights)
      jsonInterface == getABI(registry, ProxyFactoryContractName)
  IN  IF ~thSetupExecutableData.ok
      THEN [ok |-> FALSE, error |-> thSetupExecutableData.error, tx |-> NoTx]
      ELSE IF ~jsonInterface.ok
      THEN [ok |-> FALSE, error |-> jsonInterface.abi, tx |-> NoTx]
      ELSE [ok |-> TRUE, error |-> "none",
            tx |-> [to |-> proxyFactory, method |-> "createProxy",
                    a1 |-> tokenHolderMasterCopy, a2 |-> thSetupExecutableData.data]]

\* ------------------------------------------------- factories (on-chain)
NoReceipt == [status |-> FALSE, events |-> <<>>]

NewWallet == WalletState(EmptyOwners, 0, {})

ProxyAddress(kind, id) == [kind |-> kind, id |-> id]

NoProxy == ProxyAddress("none", 0)

\* UserWalletFactory.createUserWallet: a safe proxy set up with the decoded owners
\* and threshold, and a token holder proxy set up with the session key triples.
FactoryCreateUserWallet(tx, id) ==
  LET s1 == setupOwners(NewWallet, tx.a2.a1, tx.a2.a2)
      s2 == setupSessions(s1.st, tx.a6, tx.a7, tx.a8)
  IN  IF s1.ok /\ s2.ok
      THEN [ok |-> TRUE, st |-> s2.st,
            events |-> <<Ev("UserWalletCreated",
                            [gnosisSafeProxy |-> ProxyAddress("GnosisSafeProxy", id),
                             tokenHolderProxy |-> ProxyAddress("TokenHolderProxy", id)])>>]
      ELSE Reverted(NewWallet)

\* ProxyFactory.createProxy: a token holder proxy set up with the session key triples.
FactoryCreateProxy(tx) ==
  setupSessions(NewWallet, tx.a2.a4, tx.a2.a5, tx.a2.a6)

\* ------------------------------------------------------------- state
VARIABLES
  abiRegistry,      \* the contract names the ABI/bytecode registry holds
  ucall,            \* the User facade call in progress
  callsDone,        \* facade calls returned so far
  testpc,           \* the integration test: start, creating, created, failed
  gnosisSafeProxy,  \* the test's gnosisSafeProxy and tokenHolderProxy
  tokenHolderProxy,
  wallet,           \* on-chain: owner list, threshold and session grants of the wallet
  nonce,            \* on-chain: the safe's nonce
  walletCount,      \* on-chain: user wallets the factory created
  companyCount,     \* on-chain: company token holders the proxy factory created
  trail,            \* on-chain: the Safe Transactions executed on the wallet
  clients,          \* the callers of the safe: position, fetched owners, signed tx
  lastReceipt       \* the outcome of the latest execTransaction, as its caller got it

vars ==
  <<abiRegistry, ucall, callsDone, testpc, gnosisSafeProxy, tokenHolderProxy, wallet,
    nonce, walletCount, companyCount, trail, clients, lastReceipt>>

chainVars == <<wallet, nonce, walletCount, companyCount, trail>>

Clients == {"c1", "c2"}

\* ------------------------------------------------- facade call records
Args(owners, threshold, to, data, proxyFactory, owner, sessionKeys, sessionKeysSpendingLimits, sessionKeysExpirationHeights) ==
  [owners |-> owners, threshold |-> threshold, to |-> to, data |-> data,
   proxyFactory |-> proxyFactory, owner |-> owner, sessionKeys |-> sessionKeys,
   sessionKeysSpendingLimits |-> sessionKeysSpendingLimits,
   sessionKeysExpirationHeights |-> sessionKeysExpirationHeights]

NoArgs == Args(<<>>, 0, NoAddress, ZERO_BYTES, NoAddress, NoAddress, <<>>, <<>>, <<>>)

IdleCall ==
  [pc |-> "idle", caller |-> "none", kind |-> "none", args |-> NoArgs, tx |-> NoTx,
   submissions |-> 0, outcome |-> "none", receipt |-> NoReceipt]

\* createUserWallet up to its await: the transaction object is built and handed to
\* a new TxSender; an error thrown while building rejects the call.
createUserWalletCall(registry, caller, a) ==
  LET txObject == createUserWalletRawTx(registry, a.owners, a.threshold, a.to, a.data,
                                        a.sessionKeys, a.sessionKeysSpendingLimits,
                                        a.sessionKeysExpirationHeights)
  IN  [IdleCall EXCEPT !.pc = IF txObject.ok THEN "sending" ELSE "done",
                       !.caller = caller, !.kind = "user", !.args = a,
                       !.tx = txObject.tx,
                       !.outcome = IF txObject.ok THEN "none" ELSE txObject.error]

\* Mutant: the sender is invoked whether or not the transaction object was built.
createCompanyWalletCall_SendsUnbuilt(registry, caller, a) ==
  LET txObject == createCompanyWalletRawTx(registry, a.proxyFactory, a.owner,
                                           a.sessionKeys, a.sessionKeysSpendingLimits,
                                           a.sessionKeysExpirationHeights)
  IN  [IdleCall EXCEPT !.pc = "sending",
                       !.caller = caller, !.kind = "company", !.args = a,
                       !.tx = txObject.tx]

createCompanyWalletCall(registry, caller, a) ==
  LET txObject == createCompanyWalletRawTx(registry, a.proxyFactory, a.owner,
                                           a.sessionKeys, a.sessionKeysSpendingLimits,
                                           a.sessionKeysExpirationHeights)
  IN  [IdleCall EXCEPT !.pc = IF txObject.ok THEN "sending" ELSE "done",
                       !.caller = caller, !.kind = "company", !.args = a,
                       !.tx = txObject.tx,
                       !.outcome = IF txObject.ok THEN "none" ELSE txObject.error]

\* Mutant: a failed submission is handed to the sender again.
createWalletAwait_Retrying(call, result) ==
  IF result.outcome = "receipt"
  THEN [call EXCEPT !.pc = "done", !.outcome = result.outcome, !.receipt = result.receipt]
  ELSE [call EXCEPT !.pc = "sending"]

\* The rest of createUserWallet / createCompanyWallet: the receipt the sender
\* resolved with is returned, the error it rejected with is raised.
createWalletAwait(call, result) ==
  [call EXCEPT !.pc = "done", !.outcome = result.outcome, !.receipt = result.receipt]

\* TxSender.execute: one submission; the node rejects it (SubmissionError) or it is
\* mined, and the receipt tells success from revert.
SubmissionRejected == [outcome |-> "SubmissionError", receipt |-> NoReceipt]

Mined(r) ==
  [outcome |-> IF r.ok THEN "receipt" ELSE "RevertError",
   receipt |-> [status |-> r.ok, events |-> r.events]]

\* ------------------------------------------------------ argument sets
InitialOwners == {"w3", "w9"}

OwnerLists == {s \in SeqsUpTo(InitialOwners, Cardinality(InitialOwners)) : Distinct(s)}

Thresholds == 0..MaxThreshold

SessionKeyLists == Prefixes(<<"w5", "w7">>, MaxSessionKeys)

SpendingLimitLists == SeqsUpTo({sessionKeySpendingLimit}, MaxSessionKeys)

ExpirationHeightLists == SeqsUpTo({sessionKeyExpirationHeight}, MaxSessionKeys)

UserWalletArgs ==
  {Args(o, t, NULL_ADDRESS, ZERO_BYTES, NoAddress, NoAddress, k, l, h) :
     o \in OwnerLists, t \in Thresholds, k \in SessionKeyLists,
     l \in SpendingLimitLists, h \in ExpirationHeightLists}

CompanyWalletArgs ==
  {Args(<<>>, 0, NoAddress, ZERO_BYTES, ProxyFactoryAddress, "w3", k, l, h) :
     k \in SessionKeyLists, l \in SpendingLimitLists, h \in ExpirationHeightLists}

\* 'Should create a user wallet': owners wallet3 and wallet9, threshold 1, one
\* session key (wallet5).
TestWalletArgs ==
  Args(<<"w3", "w9">>, 1, NULL_ADDRESS, ZERO_BYTES, NoAddress, NoAddress, <<"w5">>,
       <<sessionKeySpendingLimit>>, <<sessionKeyExpirationHeight>>)

\* ---------------------------------------------------------------- Init
\* What a test step means to do, in the test's own variables (ownerToAdd,
\* currentOwner and newOwner, removeOwner, sessionKey, newThreshold); its
\* assertions compare the receipt's events to these.
Intent(fn, owner, newOwner, thr, key) ==
  [fn |-> fn, owner |-> owner, newOwner |-> newOwner, threshold |-> thr, key |-> key]

NoIntent == Intent("none", NoAddress, NoAddress, 0, NoAddress)

NoSafeTx == [to |-> NoProxy, data |-> [fn |-> "none"], signers |-> {}, nonce |-> 0]

NoSafeReceipt == [status |-> FALSE, reason |-> "none", events |-> <<>>]

IdleClient == [pc |-> "idle", owners |-> <<>>, intent |-> NoIntent, tx |-> NoSafeTx]

Init ==
  /\ abiRegistry \in
       {ContractNames,
        ContractNames \ {UserWalletFactoryContractName, ProxyFactoryContractName}}
  /\ ucall = IdleCall
  /\ callsDone = 0
  /\ testpc = "start"
  /\ gnosisSafeProxy = NoProxy
  /\ tokenHolderProxy = NoProxy
  /\ wallet = NewWallet
  /\ nonce = 0
  /\ walletCount = 0
  /\ companyCount = 0
  /\ trail = <<>>
  /\ clients = [c \in Clients |-> IdleClient]
  /\ lastReceipt = NoSafeReceipt

\* ------------------------------------------------ facade call actions
ApiCreateUserWallet ==
  /\ ucall.pc = "idle"
  /\ callsDone < MaxCalls
  /\ \E a \in UserWalletArgs : ucall' = createUserWalletCall(abiRegistry, "api", a)
  /\ UNCHANGED <<abiRegistry, callsDone, testpc, gnosisSafeProxy, tokenHolderProxy,
                 chainVars, clients, lastReceipt>>

ApiCreateCompanyWallet ==
  /\ ucall.pc = "idle"
  /\ callsDone < MaxCalls
  /\ \E a \in CompanyWalletArgs : ucall' = createCompanyWalletCall(abiRegistry, "api", a)
  /\ UNCHANGED <<abiRegistry, callsDone, testpc, gnosisSafeProxy, tokenHolderProxy,
                 chainVars, clients, lastReceipt>>

ShouldCreateUserWallet ==
  /\ ucall.pc = "idle"
  /\ testpc = "start"
  /\ ucall' = createUserWalletCall(abiRegistry, "test", TestWalletArgs)
  /\ testpc' = "creating"
  /\ UNCHANGED <<abiRegistry, callsDone, gnosisSafeProxy, tokenHolderProxy, chainVars,
                 clients, lastReceipt>>

TxSenderRejected ==
  /\ ucall.pc = "sending"
  /\ ucall' = createWalletAwait([ucall EXCEPT !.submissions = @ + 1], SubmissionRejected)
  /\ UNCHANGED <<abiRegistry, callsDone, testpc, gnosisSafeProxy, tokenHolderProxy,
                 chainVars, clients, lastReceipt>>

TxSenderMinedUserWallet ==
  /\ ucall.pc = "sending"
  /\ ucall.tx.method = "createUserWallet"
  /\ LET r == FactoryCreateUserWallet(ucall.tx, walletCount + 1)
     IN  /\ ucall' = createWalletAwait([ucall EXCEPT !.submissions = @ + 1], Mined(r))
         /\ IF r.ok
            THEN /\ wallet' = r.st
                 /\ nonce' = 0
                 /\ trail' = <<>>
                 /\ walletCount' = walletCount + 1
            ELSE UNCHANGED <<wallet, nonce, trail, walletCount>>
  /\ UNCHANGED <<abiRegistry, callsDone, testpc, gnosisSafeProxy, tokenHolderProxy,
                 companyCount, clients, lastReceipt>>

TxSenderMinedCompanyWallet ==
  /\ ucall.pc = "sending"
  /\ ucall.tx.method = "createProxy"
  /\ LET r == FactoryCreateProxy(ucall.tx)
     IN  /\ ucall' = createWalletAwait([ucall EXCEPT !.submissions = @ + 1], Mined(r))
         /\ companyCount' = IF r.ok THEN companyCount + 1 ELSE companyCount
  /\ UNCHANGED <<abiRegistry, callsDone, testpc, gnosisSafeProxy, tokenHolderProxy,
                 wallet, nonce, trail, walletCount, clients,
                 lastReceipt>>

\* The API caller takes the receipt or the error; nothing of the call is kept.
ApiReturn ==
  /\ ucall.pc = "done"
  /\ ucall.caller = "api"
  /\ ucall' = IdleCall
  /\ callsDone' = callsDone + 1
  /\ UNCHANGED <<abiRegistry, testpc, gnosisSafeProxy, tokenHolderProxy, chainVars,
                 clients, lastReceipt>>

\* The test asserts response.status and reads the proxies off UserWalletCreated.
ShouldCreateUserWalletAssert ==
  /\ ucall.pc = "done"
  /\ ucall.caller = "test"
  /\ ucall' = IdleCall
  /\ callsDone' = callsDone + 1
  /\ IF ucall.outcome = "receipt" /\ ucall.receipt.status
     THEN /\ testpc' = "created"
          /\ gnosisSafeProxy' = ucall.receipt.events[1].arg.gnosisSafeProxy
          /\ tokenHolderProxy' = ucall.receipt.events[1].arg.tokenHolderProxy
     ELSE /\ testpc' = "failed"
          /\ UNCHANGED <<gnosisSafeProxy, tokenHolderProxy>>
  /\ UNCHANGED <<abiRegistry, chainVars, clients, lastReceipt>>

\* ----------------------------------------------- Safe Transaction codec
Call(fn, prevOwner, owner, newOwner, thr, key) ==
  [fn |-> fn, prevOwner |-> prevOwner, owner |-> owner, newOwner |-> newOwner,
   threshold |-> thr, key |-> key]

getAddOwnerWithThresholdExecutableData(owner, thr) ==
  Call("addOwnerWithThreshold", NoAddress, owner, NoAddress, thr, NoAddress)

getSwapOwnerExecutableData(prevOwner, oldOwner, newOwner) ==
  Call("swapOwner", prevOwner, oldOwner, newOwner, 0, NoAddress)

getRemoveOwnerExecutableData(prevOwner, owner, thr) ==
  Call("removeOwner", prevOwner, owner, NoAddress, thr, NoAddress)

getChangeThresholdExecutableData(thr) ==
  Call("changeThreshold", NoAddress, NoAddress, NoAddress, thr, NoAddress)

getAuthorizeSessionExecutableData(key) ==
  Call("authorizeSession", NoAddress, NoAddress, NoAddress, 0, key)

getRevokeSessionExecutableData(key) ==
  Call("revokeSession", NoAddress, NoAddress, NoAddress, 0, key)

OwnerFns == {"addOwnerWithThreshold", "swapOwner", "removeOwner", "changeThreshold"}

SessionFns == {"authorizeSession", "revokeSession"}

\* getSafeTxData: the typed data a signature is made over.
getSafeTxData(to, data, n) == [to |-> to, value |-> 0, data |-> data, operation |-> 0, nonce |-> n]

\* getNonce(): a read of the safe's counter.
getNonce(n) == n

\* Mutant: the wrapped call is applied before the signatures are checked.
execTransaction_AppliesBeforeChecks(st, n, safe, holder, tx) ==
  LET r == ApplyCall(st, tx.data)
      targetOk == \/ tx.to = safe /\ tx.data.fn \in OwnerFns
                  \/ tx.to = holder /\ tx.data.fn \in SessionFns
  IN  IF getSafeTxData(tx.to, tx.data, tx.nonce) # getSafeTxData(tx.to, tx.data, n)
      THEN [ok |-> FALSE, reason |-> "nonce", st |-> st, nonce |-> n, events |-> <<>>]
      ELSE IF ~(tx.signers \subseteq OwnerSet(st.next)
                /\ Cardinality(tx.signers) >= st.threshold)
      THEN [ok |-> FALSE, reason |-> "signatures", st |-> r.st, nonce |-> n,
            events |-> <<>>]
      ELSE IF ~(targetOk /\ r.ok)
      THEN [ok |-> FALSE, reason |-> "revert", st |-> st, nonce |-> n, events |-> <<>>]
      ELSE [ok |-> TRUE, reason |-> "executed", st |-> r.st, nonce |-> n + 1,
            events |-> r.events]

\* Safe.execTransaction as mined: the signatures are checked against the typed data
\* of the submitted fields and the safe's own nonce, then the wrapped call runs.
\* A rejected or reverted transaction leaves the state and the nonce as they were.
execTransaction(st, n, safe, holder, tx) ==
  LET r == ApplyCall(st, tx.data)
      targetOk == \/ tx.to = safe /\ tx.data.fn \in OwnerFns
                  \/ tx.to = holder /\ tx.data.fn \in SessionFns
  IN  IF getSafeTxData(tx.to, tx.data, tx.nonce) # getSafeTxData(tx.to, tx.data, n)
      THEN [ok |-> FALSE, reason |-> "nonce", st |-> st, nonce |-> n, events |-> <<>>]
      ELSE IF ~(tx.signers \subseteq OwnerSet(st.next)
                /\ Cardinality(tx.signers) >= st.threshold)
      THEN [ok |-> FALSE, reason |-> "signatures", st |-> st, nonce |-> n, events |-> <<>>]
      ELSE IF ~(targetOk /\ r.ok)
      THEN [ok |-> FALSE, reason |-> "revert", st |-> st, nonce |-> n, events |-> <<>>]
      ELSE [ok |-> TRUE, reason |-> "executed", st |-> r.st, nonce |-> n + 1,
            events |-> r.events]

\* ------------------------------------------------- the test's protocol
\* 'Should add wallet'.
AddOwnerExData(ownerToAdd, thr) == getAddOwnerWithThresholdExecutableData(ownerToAdd, thr)

\* Mutant: the owner to replace is taken to be the head of the list.
SwapOwnerExData_AssumesHead(owners, currentOwner, newOwner) ==
  getSwapOwnerExecutableData(SENTINEL_OWNERS, currentOwner, newOwner)

\* 'Should replace wallet': the predecessor is looked up in the fetched owners.
SwapOwnerExData(owners, currentOwner, newOwner) ==
  getSwapOwnerExecutableData(findPreviousOwner(owners, currentOwner), currentOwner,
                             newOwner)

\* 'Should remove wallet'.
RemoveOwnerExData(owners, ownerToRemove, thr) ==
  getRemoveOwnerExecutableData(findPreviousOwner(owners, ownerToRemove), ownerToRemove,
                               thr)

\* 'Should authorize session', 'Should revoke session', 'Should change required
\* threshold'.
AuthorizeSessionExData(sessionKey) == getAuthorizeSessionExecutableData(sessionKey)

\* Mutant: the key revoked is the wallet's first session key, not the one given.
RevokeSessionExData_FirstKey(sessionKey) == getRevokeSessionExecutableData("w5")

RevokeSessionExData(sessionKey) == getRevokeSessionExecutableData(sessionKey)

\* Mutant: the threshold is encoded one too low.
ChangeThresholdExData_OffByOne(newThreshold) ==
  getChangeThresholdExecutableData(newThreshold - 1)

ChangeThresholdExData(newThreshold) == getChangeThresholdExecutableData(newThreshold)

\* Mutant: the nonce signed over is one fetched earlier and kept.
SignedSafeTx_CachedNonce(to, data, signers, n) ==
  [to |-> to, data |-> data, signers |-> signers,
   nonce |-> IF n > 0 THEN getNonce(n - 1) ELSE getNonce(n)]

\* const nonce = await getNonce(); getSafeTxData(..., nonce); signEIP712TypedData:
\* the transaction as signed, over the nonce just fetched.
SignedSafeTx(to, data, signers, n) ==
  [to |-> to, data |-> data, signers |-> signers, nonce |-> getNonce(n)]

\* Mutant: a transaction is signed again over the current nonce when submitted.
SubmittedTx_Resigned(tx, n) == [tx EXCEPT !.nonce = n]

\* execTransaction(to, 0, data, ..., signature): the fields and the signature made
\* at signing time are submitted as they are.
SubmittedTx(tx, n) == tx

\* The calls of the test, and the removal of the other owner of the created
\* wallet and the revocation of its first session key; each signed by the signer
\* the test gives it, or by wallet9 and wallet8 together.
SignerSets(testSigner) == {{testSigner}, {"w8", "w9"}}

Op(intent, data, signers) == [intent |-> intent, data |-> data, signers |-> signers]

ListOps(owners) ==
  {Op(Intent("swapOwner", "w3", "w8", 0, NoAddress),
      SwapOwnerExData(owners, "w3", "w8"), s) : s \in SignerSets("w3")}
    \cup {Op(Intent("removeOwner", "w7", NoAddress, 1, NoAddress),
             RemoveOwnerExData(owners, "w7", 1), s) : s \in SignerSets("w7")}
    \cup {Op(Intent("removeOwner", "w9", NoAddress, 1, NoAddress),
             RemoveOwnerExData(owners, "w9", 1), s) : s \in SignerSets("w8")}

DirectOps ==
  {Op(Intent("addOwnerWithThreshold", "w7", NoAddress, 1, NoAddress),
      AddOwnerExData("w7", 1), s) : s \in SignerSets("w3")}
    \cup {Op(Intent("authorizeSession", NoAddress, NoAddress, 0, "w7"),
             AuthorizeSessionExData("w7"), s) : s \in SignerSets("w8")}
    \cup {Op(Intent("revokeSession", NoAddress, NoAddress, 0, k),
             RevokeSessionExData(k), s) : k \in SessionKeyWallets, s \in SignerSets("w8")}
    \cup {Op(Intent("changeThreshold", NoAddress, NoAddress, t, NoAddress),
             ChangeThresholdExData(t), s) : t \in 2..MaxThreshold, s \in SignerSets("w8")}

TargetOf(data) == IF data.fn \in OwnerFns THEN gnosisSafeProxy ELSE tokenHolderProxy

ClientSign(c, op) ==
  clients' = [clients EXCEPT ![c] =
                [@ EXCEPT !.pc = "signed", !.owners = <<>>, !.intent = op.intent,
                          !.tx = SignedSafeTx(TargetOf(op.data), op.data, op.signers,
                                              nonce)]]

ClientGetOwners(c) ==
  /\ testpc = "created"
  /\ clients[c].pc = "idle"
  /\ nonce < MaxNonce
  /\ clients' = [clients EXCEPT ![c] = [@ EXCEPT !.pc = "owners",
                                               !.owners = getOwners(wallet.next)]]
  /\ UNCHANGED <<abiRegistry, ucall, callsDone, testpc, gnosisSafeProxy,
                 tokenHolderProxy, chainVars, lastReceipt>>

ClientBuildListCall(c) ==
  /\ clients[c].pc = "owners"
  /\ \E op \in ListOps(clients[c].owners) : ClientSign(c, op)
  /\ UNCHANGED <<abiRegistry, ucall, callsDone, testpc, gnosisSafeProxy,
                 tokenHolderProxy, chainVars, lastReceipt>>

ClientBuildCall(c) ==
  /\ testpc = "created"
  /\ clients[c].pc = "idle"
  /\ nonce < MaxNonce
  /\ \E op \in DirectOps : ClientSign(c, op)
  /\ UNCHANGED <<abiRegistry, ucall, callsDone, testpc, gnosisSafeProxy,
                 tokenHolderProxy, chainVars, lastReceipt>>

\* GnosisSafe.execTransaction through the sender: the node rejects the submission ...
ClientExecRejected(c) ==
  /\ clients[c].pc = "signed"
  /\ clients' = [clients EXCEPT ![c] = IdleClient]
  /\ lastReceipt' = [status |-> FALSE, reason |-> "SubmissionError", events |-> <<>>]
  /\ UNCHANGED <<abiRegistry, ucall, callsDone, testpc, gnosisSafeProxy,
                 tokenHolderProxy, chainVars>>

\* ... or the transaction is mined and its receipt returned to the caller.
ClientExecMined(c) ==
  /\ clients[c].pc = "signed"
  /\ LET tx == SubmittedTx(clients[c].tx, nonce)
         r == execTransaction(wallet, nonce, gnosisSafeProxy, tokenHolderProxy, tx)
     IN  /\ clients' = [clients EXCEPT ![c] = IdleClient]
         /\ lastReceipt' = [status |-> r.ok, reason |-> r.reason, events |-> r.events]
         /\ wallet' = r.st
         /\ nonce' = r.nonce
         /\ trail' = IF r.ok
                     THEN Append(trail, [data |-> tx.data, nonce |-> tx.nonce,
                                         signers |-> tx.signers,
                                         owners |-> OwnerSet(r.st.next)])
                     ELSE trail
  /\ UNCHANGED <<abiRegistry, ucall, callsDone, testpc, gnosisSafeProxy,
                 tokenHolderProxy, walletCount, companyCount>>

\* ------------------------------------------------------ specifications
NextUser ==
  \/ ApiCreateUserWallet
  \/ ApiCreateCompanyWallet
  \/ TxSenderRejected
  \/ TxSenderMinedUserWallet
  \/ TxSenderMinedCompanyWallet
  \/ ApiReturn

\* The facade as an API caller uses it.
SpecUser == Init /\ [][NextUser]_vars

Next ==
  \/ ShouldCreateUserWallet
  \/ TxSenderRejected
  \/ TxSenderMinedUserWallet
  \/ ShouldCreateUserWalletAssert
  \/ \E c \in Clients :
       \/ ClientGetOwners(c)
       \/ ClientBuildListCall(c)
       \/ ClientBuildCall(c)
       \/ ClientExecRejected(c)
       \/ ClientExecMined(c)

\* The integration test: the wallet is created, then operated on.
Spec == Init /\ [][Next]_vars

\* ---------------------------------------------------------------------
\* Claims about the facade (checked under SpecUser)
\* ---------------------------------------------------------------------
Mismatched(a) ==
  ~(/\ Len(a.sessionKeys) = Len(a.sessionKeysSpendingLimits)
    /\ Len(a.sessionKeys) = Len(a.sessionKeysExpirationHeights))

\* C1: a createUserWallet or createCompanyWallet call whose three session key
\* arrays differ in length submits nothing, and when it is done it has failed with a
\* ValidationError (stated where every ABI is registered, so that no other error
\* comes first).
C1_FailsFastWithValidationError ==
  (ucall.pc # "idle" /\ Mismatched(ucall.args) /\ abiRegistry = ContractNames) =>
    /\ ucall.submissions = 0
    /\ ucall.pc = "done" => ucall.outcome = "ValidationError"

ValidOwners(a) == a.threshold >= 1 /\ a.threshold <= Len(a.owners)

\* C2: a createUserWallet call with 1 <= threshold <= |owners| (distinct owners,
\* session key triples of equal length) whose transaction the node accepted returns
\* a receipt with status true and one UserWalletCreated event naming the two new
\* proxies, and the created safe's owner list has exactly |owners| entries, the
\* caller's owners.
C2_ValidOwnersCreateWallet ==
  (/\ ucall.pc = "done"
   /\ ucall.kind = "user"
   /\ ValidOwners(ucall.args)
   /\ ~Mismatched(ucall.args)
   /\ ucall.outcome \notin {"NotFoundError", "SubmissionError"}) =>
    /\ ucall.outcome = "receipt"
    /\ ucall.receipt.status
    /\ Len(ucall.receipt.events) = 1
    /\ ucall.receipt.events[1] =
         Ev("UserWalletCreated",
            [gnosisSafeProxy |-> ProxyAddress("GnosisSafeProxy", walletCount),
             tokenHolderProxy |-> ProxyAddress("TokenHolderProxy", walletCount)])
    /\ walletCount >= 1
    /\ Len(getOwners(wallet.next)) = Len(ucall.args.owners)
    /\ Range(getOwners(wallet.next)) = Range(ucall.args.owners)
    /\ wallet.threshold = ucall.args.threshold

C2_Witness ==
  /\ ucall.pc = "done"
  /\ ucall.kind = "user"
  /\ ucall.args.owners = <<"w9", "w3">>
  /\ ucall.args.threshold = 2
  /\ ucall.receipt.status
  /\ Len(getOwners(wallet.next)) = 2

\* C10: a createUserWallet or createCompanyWallet call submits at most one
\* transaction, and when it is done it has exactly one outcome: the receipt of its
\* one submission returned, or one error raised (NotFoundError before anything was
\* submitted, SubmissionError or RevertError after the one submission).
C10_OneSubmissionOneOutcome ==
  /\ ucall.submissions <= 1
  /\ ucall.pc \in {"idle", "sending"} => ucall.outcome = "none"
  /\ ucall.pc = "sending" => ucall.submissions = 0
  /\ ucall.pc = "done" =>
       /\ ucall.outcome \in {"receipt", "NotFoundError", "SubmissionError", "RevertError"}
       /\ ucall.outcome = "receipt" <=> ucall.receipt.status
       /\ ucall.outcome = "NotFoundError" <=> ucall.submissions = 0
       /\ ucall.outcome # "NotFoundError" <=> ucall.submissions = 1

C10_Witness ==
  /\ ucall.pc = "done"
  /\ ucall.kind = "company"
  /\ ucall.outcome = "RevertError"
  /\ ucall.submissions = 1
  /\ callsDone = 1

\* ---------------------------------------------------------------------
\* Claims about Safe Transactions (checked under Spec)
\* ---------------------------------------------------------------------
\* Client c's execTransaction is mined in this step.
MinedStep(c) ==
  /\ clients[c].pc = "signed"
  /\ clients'[c].pc = "idle"
  /\ lastReceipt'.reason # "SubmissionError"

\* Client c's signed transaction would execute if it were mined now.
Executable(c) ==
  execTransaction(wallet, nonce, gnosisSafeProxy, tokenHolderProxy,
                  SubmittedTx(clients[c].tx, nonce)).ok

RejectedForNonce(st, n, tx) ==
  LET r == execTransaction(st, n, gnosisSafeProxy, tokenHolderProxy, SubmittedTx(tx, n))
  IN  ~r.ok /\ r.reason = "nonce"

C3_Step(c, d) ==
  MinedStep(c) =>
    /\ clients[c].tx.nonce # nonce =>
         /\ ~lastReceipt'.status
         /\ lastReceipt'.reason = "nonce"
         /\ nonce' = nonce
    /\ (/\ c # d
        /\ clients[d].pc = "signed"
        /\ clients[d].tx.nonce = clients[c].tx.nonce
        /\ Executable(c)
        /\ Executable(d)) =>
         /\ lastReceipt'.status
         /\ nonce' = nonce + 1
         /\ clients'[d] = clients[d]
         /\ RejectedForNonce(wallet', nonce', clients'[d].tx)

\* C3: two clients may hold Safe Transactions signed over the same fetched nonce at
\* once (nothing in the clients serializes them).  When both would execute and one
\* is mined, it executes and advances the safe's nonce, and the other, left as it
\* was signed, is from then on rejected by the safe's nonce check; a transaction
\* mined with a nonce other than the safe's never executes.  So in either order
\* exactly one of the two executes.
C3_OneOfTwoSameNonceExecutes ==
  [][\A c \in Clients : \A d \in Clients : C3_Step(c, d)]_vars

C3_Witness ==
  /\ Len(trail) = 1
  /\ nonce = 1
  /\ trail[1].nonce = 0
  /\ lastReceipt.reason = "nonce"
  /\ ~lastReceipt.status
  /\ \A c \in Clients : clients[c].pc = "idle"

C4_Consumed ==
  /\ Len(trail) = nonce
  /\ \A i \in 1..Len(trail) : trail[i].nonce = i - 1
  /\ \A c \in Clients : clients[c].pc = "signed" => clients[c].tx.nonce <= nonce

C4_Step(c) ==
  /\ nonce' >= nonce
  /\ MinedStep(c) =>
       /\ lastReceipt'.status => (clients[c].tx.nonce = nonce /\ nonce' = nonce + 1)
       /\ ~lastReceipt'.status => nonce' = nonce
  /\ (clients[c].pc # "signed" /\ clients'[c].pc = "signed") =>
       clients'[c].tx.nonce = nonce

\* C4: the safe's nonce never decreases; a mined Safe Transaction executes only if
\* its nonce equals the safe's counter at that moment, and then the counter goes up
\* by one, so the i-th executed transaction carries nonce i-1 and no nonce is used
\* twice; a transaction being signed carries the counter's value at that moment,
\* never an earlier one.
C4_NonceMonotonicAndFresh ==
  []C4_Consumed /\ [][\A c \in Clients : C4_Step(c)]_vars

C4_Witness ==
  /\ nonce = 2
  /\ Len(trail) = 2
  /\ trail[2].nonce = 1
  /\ \E c \in Clients : clients[c].pc = "signed" /\ clients[c].tx.nonce = 2
  /\ \E c \in Clients : clients[c].pc = "signed" /\ clients[c].tx.nonce < 2

\* The first three executed transactions are an add-owner, a swap-owner and a
\* remove-owner, in that order (each signed over the nonce fetched for it).
AddSwapRemove ==
  /\ Len(trail) >= 3
  /\ trail[1].data.fn = "addOwnerWithThreshold"
  /\ trail[2].data.fn = "swapOwner"
  /\ trail[3].data.fn = "removeOwner"

\* X, Y: the owners the wallet is created with; Z: the owner added; W: the owner
\* swapped in for X.
OwnerX == TestWalletArgs.owners[1]

OwnerY == TestWalletArgs.owners[2]

OwnerZ == trail[1].data.owner

OwnerW == trail[2].data.newOwner

StartsFromXY ==
  (testpc = "created" /\ trail = <<>>) =>
    /\ OwnerSet(wallet.next) = {OwnerX, OwnerY}
    /\ wallet.threshold = 1

\* C5 as stated: from {X, Y} with threshold 1, add-owner, swap-owner, remove-owner
\* leave the owner sets {X, Y, Z}, {Y, Z, W}, {Z, W}.
C5_AddSwapRemoveEndsWithZW ==
  /\ StartsFromXY
  /\ AddSwapRemove =>
       /\ trail[1].owners = {OwnerX, OwnerY, OwnerZ}
       /\ trail[2].owners = {OwnerY, OwnerZ, OwnerW}
       /\ trail[3].owners = {OwnerZ, OwnerW}

\* C5 as amended: from {X, Y} with threshold 1, add-owner, swap-owner, remove-owner
\* leave the owner sets {X, Y, Z}, {Y, Z, W} and then {Y, Z, W} without the owner
\* removed: {Y, W} when Z is removed, as in the test, and {Z, W} only when Y is.
C5_AddSwapRemoveDropsRemovedOwner ==
  /\ StartsFromXY
  /\ AddSwapRemove =>
       /\ \A i \in 1..3 : trail[i].nonce = i - 1
       /\ trail[1].owners = {OwnerX, OwnerY, OwnerZ}
       /\ trail[2].owners = {OwnerY, OwnerZ, OwnerW}
       /\ trail[3].data.owner \in {OwnerY, OwnerZ, OwnerW}
       /\ trail[3].owners = {OwnerY, OwnerZ, OwnerW} \ {trail[3].data.owner}
       /\ trail[3].data.owner = OwnerZ => trail[3].owners = {OwnerY, OwnerW}
       /\ trail[3].data.owner = OwnerY => trail[3].owners = {OwnerZ, OwnerW}

C5_Witness ==
  /\ AddSwapRemove
  /\ Len(trail) = 3
  /\ trail[3].data.owner = "w7"
  /\ trail[3].signers = {"w7"}
  /\ OwnerSet(wallet.next) = {"w9", "w8"}

EventsOf(c) ==
  [added |-> ArgsOf(lastReceipt'.events, "AddedOwner"),
   removed |-> ArgsOf(lastReceipt'.events, "RemovedOwner"),
   threshold |-> ArgsOf(lastReceipt'.events, "ChangedThreshold"),
   intent |-> clients[c].intent]

C6_Step(c) ==
  (MinedStep(c) /\ lastReceipt'.status) =>
    LET e == EventsOf(c)
    IN  /\ clients[c].tx.signers \subseteq OwnerSet(wallet.next)
        /\ e.intent.fn = "addOwnerWithThreshold" =>
             e.added = <<e.intent.owner>> /\ e.removed = <<>>
        /\ e.intent.fn = "swapOwner" =>
             e.added = <<e.intent.newOwner>> /\ e.removed = <<e.intent.owner>>
        /\ e.intent.fn = "removeOwner" =>
             e.removed = <<e.intent.owner>> /\ e.added = <<>>
        /\ e.intent.fn = "changeThreshold" =>
             /\ e.threshold = <<e.intent.threshold>>
             /\ e.added = <<>>
             /\ e.removed = <<>>

\* C6: the receipt of every executed owner-management Safe Transaction (its signers
\* are owners) names exactly the parties the caller meant: add-owner has one
\* AddedOwner with the added owner and no RemovedOwner; swap-owner one AddedOwner
\* with the new owner and one RemovedOwner with the replaced one; remove-owner one
\* RemovedOwner with the removed owner, the signer included, and no AddedOwner;
\* change-threshold one ChangedThreshold with the new threshold.
C6_EventsNameAffectedParties == [][\A c \in Clients : C6_Step(c)]_vars

C6_Witness ==
  /\ lastReceipt.status
  /\ Len(trail) >= 1
  /\ trail[Len(trail)].data.fn = "removeOwner"
  /\ trail[Len(trail)].data.owner = "w7"
  /\ trail[Len(trail)].signers = {"w7"}
  /\ lastReceipt.events = <<Ev("RemovedOwner", "w7")>>

FreshOwners(c) == clients[c].pc = "owners" /\ clients[c].owners = getOwners(wallet.next)

\* C7: for the owner array getOwners returns and every owner o in it,
\* findPreviousOwner gives the address whose successor in the safe's linked list is
\* o, the sentinel exactly when o is the first; and every swap-owner or remove-owner
\* call a client builds from a just-fetched array for a current owner names that
\* owner's predecessor.
C7_FindPreviousOwnerIsPredecessor ==
  /\ \A o \in Range(getOwners(wallet.next)) :
       LET p == findPreviousOwner(getOwners(wallet.next), o)
       IN  /\ p \in Addr
           /\ wallet.next[p] = o
           /\ p = SENTINEL_OWNERS <=> o = getOwners(wallet.next)[1]
  /\ \A c \in Clients :
       FreshOwners(c) =>
         \A op \in ListOps(clients[c].owners) :
           op.data.owner \in OwnerSet(wallet.next) =>
             /\ op.data.prevOwner \in Addr
             /\ wallet.next[op.data.prevOwner] = op.data.owner

C7_Witness ==
  /\ getOwners(wallet.next) = <<"w7", "w3", "w9">>
  /\ findPreviousOwner(getOwners(wallet.next), "w3") = "w7"
  /\ \E c \in Clients : FreshOwners(c)

SessionEventsOf(c) ==
  [authorized |-> ArgsOf(lastReceipt'.events, "SessionAuthorized"),
   revoked |-> ArgsOf(lastReceipt'.events, "SessionRevoked"),
   intent |-> clients[c].intent]

C8_Step(c) ==
  (MinedStep(c) /\ lastReceipt'.status) =>
    LET e == SessionEventsOf(c)
    IN  /\ e.intent.fn = "authorizeSession" =>
             /\ e.authorized = <<e.intent.key>>
             /\ e.revoked = <<>>
             /\ e.intent.key \in wallet'.sessions
        /\ e.intent.fn = "revokeSession" =>
             /\ e.revoked = <<e.intent.key>>
             /\ e.authorized = <<>>
             /\ e.intent.key \notin wallet'.sessions

\* The positions in the trail of the executed calls of fn for key k.
SessionCalls(fn, k) ==
  {i \in 1..Len(trail) : trail[i].data.fn = fn /\ trail[i].data.key = k}

\* Some authorizeSession(k) has executed and no revokeSession(k) after it.
BetweenAuthorizeAndRevoke(k) ==
  \E i \in SessionCalls("authorizeSession", k) :
    \A j \in SessionCalls("revokeSession", k) : j < i

\* k was a session key of createUserWallet and no revokeSession(k) has executed.
SinceCreation(k) ==
  /\ k \in Range(TestWalletArgs.sessionKeys)
  /\ SessionCalls("revokeSession", k) = {}

\* C8 as stated: an executed authorizeSession(K) has exactly one SessionAuthorized
\* event, naming K, and an executed revokeSession(K) exactly one SessionRevoked
\* event, naming K; a session key has a grant only between its authorizeSession
\* and its revokeSession.
C8_GrantOnlyBetweenAuthorizeAndRevoke ==
  /\ [][\A c \in Clients : C8_Step(c)]_vars
  /\ [](\A k \in wallet.sessions : BetweenAuthorizeAndRevoke(k))

\* C8 as amended: an executed authorizeSession(K) has exactly one SessionAuthorized
\* event, naming K, and an executed revokeSession(K) exactly one SessionRevoked
\* event, naming K; a session key has a grant only from the creation of the wallet
\* with that key among its session keys, or from its authorizeSession, until its
\* revokeSession.
C8_GrantFromCreationOrAuthorizeUntilRevoke ==
  /\ [][\A c \in Clients : C8_Step(c)]_vars
  /\ [](\A k \in wallet.sessions : SinceCreation(k) \/ BetweenAuthorizeAndRevoke(k))

C8_Witness ==
  /\ lastReceipt.status
  /\ lastReceipt.events = <<Ev("SessionRevoked", "w7")>>
  /\ SessionCalls("authorizeSession", "w7") # {}
  /\ wallet.sessions = {"w5"}

C9_Step(c) ==
  (clients[c].pc = "signed" /\ clients'[c].pc = "idle" /\ ~lastReceipt'.status) =>
    /\ OwnerSet(wallet'.next) = OwnerSet(wallet.next)
    /\ getOwners(wallet'.next) = getOwners(wallet.next)
    /\ wallet'.threshold = wallet.threshold
    /\ wallet'.sessions = wallet.sessions
    /\ nonce' = nonce
    /\ trail' = trail
    /\ lastReceipt'.events = <<>>
    /\ lastReceipt'.reason \in {"SubmissionError", "nonce", "signatures", "revert"}

\* C9: a Safe Transaction that fails (the node rejects the submission, its nonce is
\* not the safe's, its signatures are not enough owners', or the wrapped call
\* reverts) leaves the owners, the threshold, the session key grants and the nonce
\* as they were, and reports no events.
C9_FailedActionLeavesStateUnchanged == [][\A c \in Clients : C9_Step(c)]_vars

C9_Witness ==
  /\ ~lastReceipt.status
  /\ lastReceipt.reason = "signatures"
  /\ Len(trail) >= 1
  /\ Cardinality(OwnerSet(wallet.next)) = 3
  /\ wallet.sessions # {}

\* ---------------------------------------------------------------------
\* Claims about the transactions the facade builds (checked under SpecUser)
\* ---------------------------------------------------------------------
\* C12: the transaction createUserWallet has built is a createUserWallet call on
\* the contract at userWalletFactoryAddress with eight arguments, in this order:
\* gnosisSafeMasterCopy, the setup call data of the caller's owners, threshold, to
\* and data, tokenHolderMasterCopy, eip20Token, tokenRules, and the caller's
\* sessionKeys, sessionKeysSpendingLimits and sessionKeysExpirationHeights as given.
C12_UserWalletTxArguments ==
  (ucall.kind = "user" /\ ucall.tx # NoTx) =>
    /\ DOMAIN ucall.tx = {"to", "method", "a1", "a2", "a3", "a4", "a5", "a6", "a7", "a8"}
    /\ ucall.tx.to = "userWalletFactoryAddress"
    /\ ucall.tx.method = "createUserWallet"
    /\ ucall.tx.a1 = "gnosisSafeMasterCopyAddress"
    /\ ucall.tx.a2 = [selector |-> "setup(address[],uint256,address,bytes)",
                      a1 |-> ucall.args.owners, a2 |-> ucall.args.threshold,
                      a3 |-> ucall.args.to, a4 |-> ucall.args.data]
    /\ ucall.tx.a3 = "thMasterCopyAddress"
    /\ ucall.tx.a4 = "mockToken"
    /\ ucall.tx.a5 = "tokenRulesAddress"
    /\ ucall.tx.a6 = ucall.args.sessionKeys
    /\ ucall.tx.a7 = ucall.args.sessionKeysSpendingLimits
    /\ ucall.tx.a8 = ucall.args.sessionKeysExpirationHeights

C12_Witness ==
  /\ ucall.kind = "user"
  /\ ucall.pc = "sending"
  /\ ucall.args.owners = <<"w9", "w3">>
  /\ ucall.tx.a2.a1 = <<"w9", "w3">>
  /\ ucall.tx.a6 = <<"w5", "w7">>
  /\ ucall.tx.a7 = <<"sessionKeySpendingLimit">>
  /\ ucall.tx.a8 = <<>>

\* The ABIs a call of the given kind resolves while building its transaction.
AbisNeeded(kind) ==
  IF kind = "user" THEN {"UserWalletFactory"}
  ELSE IF kind = "company" THEN {"TokenHolder", "ProxyFactory"}
  ELSE {}

C14_CompanyWalletTxArguments ==
  (ucall.kind = "company" /\ ucall.tx # NoTx) =>
    /\ DOMAIN ucall.tx = {"to", "method", "a1", "a2"}
    /\ ucall.tx.to = ucall.args.proxyFactory
    /\ ucall.tx.to # "userWalletFactoryAddress"
    /\ ucall.tx.method = "createProxy"
    /\ ucall.tx.a1 = "thMasterCopyAddress"
    /\ ucall.tx.a2 =
         [selector |-> "setup(address,address,address,address[],uint256[],uint256[])",
          a1 |-> "mockToken", a2 |-> "tokenRulesAddress", a3 |-> ucall.args.owner,
          a4 |-> ucall.args.sessionKeys,
          a5 |-> ucall.args.sessionKeysSpendingLimits,
          a6 |-> ucall.args.sessionKeysExpirationHeights]

C14_Witness ==
  /\ ucall.kind = "company"
  /\ ucall.pc = "done"
  /\ ucall.outcome = "receipt"
  /\ ucall.tx.to = "proxyFactoryAddress"
  /\ ucall.tx.a2.a3 = "w3"
  /\ ucall.tx.a2.a4 = <<"w5">>
  /\ companyCount = 1

====
